---------------------------- MODULE Spec2Model ----------------------------
(***************************************************************************)
(* Model of the caption-preparation scripts of Sketch_gen:                 *)
(*   clean_and_prepare_captions.py, process_all_captions.py,               *)
(*   validate_captions.py and caption_generator_finetuned.py.              *)
(*                                                                         *)
(* Text is modelled as a sequence of one-character strings, so that the    *)
(* cleaning functions and the CSV conversions are computed character by    *)
(* character as the code computes them.  File names are sequences of       *)
(* dot-separated components ("a.b.jpg" is <<"a","b","jpg">>), paths are    *)
(* sequences of directory components.                                      *)
(***************************************************************************)
EXTENDS Integers, Sequences, FiniteSets, TLC

(***************************************************************************)
(* Characters and strings                                                  *)
(***************************************************************************)
Uppers == <<"A","B","C","D","E","F","G","H","I","J","K","L","M",
            "N","O","P","Q","R","S","T","U","V","W","X","Y","Z">>

Lowers == <<"a","b","c","d","e","f","g","h","i","j","k","l","m",
            "n","o","p","q","r","s","t","u","v","w","x","y","z">>

\* the characters str.isspace() and the regex class \s accept
Whitespace == {" ", "\n", "\t", "\r"}

\* the characters of the model's texts
Alphabet ==
    {Uppers[i] : i \in 1..Len(Uppers)} \cup {Lowers[i] : i \in 1..Len(Lowers)}
    \cup {"0","1","2","3","4","5","6","7","8","9"}
    \cup {".", ",", "\"", "/", "#", "<", ">", "-", "_"} \cup Whitespace

IndexIn(c, table) ==
    IF \E i \in 1..Len(table) : table[i] = c
    THEN CHOOSE i \in 1..Len(table) : table[i] = c
    ELSE 0

\* str.lower() / re.IGNORECASE folding, and str.upper(), character by character
LowerOf ==
    [c \in Alphabet |-> LET i == IndexIn(c, Uppers) IN IF i = 0 THEN c ELSE Lowers[i]]

UpperOf ==
    [c \in Alphabet |-> LET i == IndexIn(c, Lowers) IN IF i = 0 THEN c ELSE Uppers[i]]

Lower(c) == LowerOf[c]

Upper(c) == UpperOf[c]

Fold(c, ignorecase) == IF ignorecase THEN LowerOf[c] ELSE c

\* does the literal pat occur in s at position i (1-based)?
MatchAt(s, i, pat, ignorecase) ==
    /\ i + Len(pat) - 1 <= Len(s)
    /\ \A k \in 1..Len(pat) : Fold(s[i + k - 1], ignorecase) = Fold(pat[k], ignorecase)

\* index of the first alternative of pats that matches at i, 0 when none does
FirstMatch(s, i, pats, ignorecase) ==
    IF \E m \in 1..Len(pats) : MatchAt(s, i, pats[m], ignorecase)
    THEN CHOOSE m \in 1..Len(pats) :
            /\ MatchAt(s, i, pats[m], ignorecase)
            /\ \A k \in 1..(m - 1) : ~MatchAt(s, i, pats[k], ignorecase)
    ELSE 0

\* the positions of s where some alternative of pats matches
MatchStarts(s, pats, ignorecase) ==
    {j \in 1..Len(s) : \E m \in 1..Len(pats) : MatchAt(s, j, pats[m], ignorecase)}

Min(S) == CHOOSE x \in S : \A y \in S : x <= y

\* re.sub / str.replace over an ordered list of literal alternatives: the leftmost
\* match at or after i is replaced, and the scan goes on behind it
RECURSIVE SubFrom(_, _, _, _, _, _)
SubFrom(s, i, starts, pats, repl, ignorecase) ==
    LET later == {j \in starts : j >= i} IN
    IF later = {} THEN SubSeq(s, i, Len(s))
    ELSE LET j == Min(later)
             m == FirstMatch(s, j, pats, ignorecase)
         IN SubSeq(s, i, j - 1) \o repl
            \o SubFrom(s, j + Len(pats[m]), starts, pats, repl, ignorecase)

ReSubIgnoreCase(pats, repl, s) ==
    SubFrom(s, 1, MatchStarts(s, pats, TRUE), pats, repl, TRUE)

StrReplace(s, old, new) ==
    SubFrom(s, 1, MatchStarts(s, <<old>>, FALSE), <<old>>, new, FALSE)

\* first position >= i of s that holds no character of set (Len(s)+1 when none)
RECURSIVE SkipRun(_, _, _)
SkipRun(s, i, set) ==
    IF i <= Len(s) /\ s[i] \in set THEN SkipRun(s, i + 1, set) ELSE i

\* first position >= i of s that holds a character of set (Len(s)+1 when none)
RECURSIVE SkipTo(_, _, _)
SkipTo(s, i, set) ==
    IF i <= Len(s) /\ s[i] \notin set THEN SkipTo(s, i + 1, set) ELSE i

\* re.sub(r'\s+', ' ', s): the first character of a run of whitespace becomes a
\* space, the rest of the run goes
CollapseWhitespace(s) ==
    LET marked == [j \in 1..Len(s) |->
                      IF s[j] \notin Whitespace THEN s[j]
                      ELSE IF j = 1 \/ s[j - 1] \notin Whitespace THEN " "
                      ELSE "dropped"]
    IN SelectSeq(marked, LAMBDA c : c # "dropped")

\* end (exclusive) of a match of  ,\s*,+  at position j of s, 0 when there is none
CommaRunEnd(s, j) ==
    IF s[j] # "," THEN 0
    ELSE LET a == SkipRun(s, j + 1, Whitespace)
             b == SkipRun(s, a, {","})
         IN IF b > a THEN b ELSE 0

\* re.sub(r',\s*,+', ',', s)
RECURSIVE CommasFrom(_, _, _)
CommasFrom(s, i, starts) ==
    LET later == {j \in starts : j >= i} IN
    IF later = {} THEN SubSeq(s, i, Len(s))
    ELSE LET j == Min(later)
         IN SubSeq(s, i, j - 1) \o <<",">> \o CommasFrom(s, CommaRunEnd(s, j), starts)

CollapseCommas(s) ==
    CommasFrom(s, 1, {j \in 1..Len(s) : CommaRunEnd(s, j) # 0})

\* last position <= i of s that holds no character of set (0 when none)
RECURSIVE SkipRunBack(_, _, _)
SkipRunBack(s, i, set) ==
    IF i >= 1 /\ s[i] \in set THEN SkipRunBack(s, i - 1, set) ELSE i

\* str.lstrip / str.rstrip / str.strip with a set of characters
LStrip(s, set) == SubSeq(s, SkipRun(s, 1, set), Len(s))

RStrip(s, set) == SubSeq(s, 1, SkipRunBack(s, Len(s), set))

Strip(s, set) == RStrip(LStrip(s, set), set)

\* str.split(): the maximal runs of non-whitespace characters
RECURSIVE SplitFrom(_, _)
SplitFrom(s, i) ==
    LET a == SkipRun(s, i, Whitespace) IN
    IF a > Len(s) THEN <<>>
    ELSE LET b == SkipTo(s, a, Whitespace)
         IN <<SubSeq(s, a, b - 1)>> \o SplitFrom(s, b)

Split(s) == SplitFrom(s, 1)

\* sep.join(words)
RECURSIVE Join(_, _)
Join(words, sep) ==
    IF Len(words) = 0 THEN <<>>
    ELSE IF Len(words) = 1 THEN words[1]
    ELSE words[1] \o sep \o Join(Tail(words), sep)

WordCount(s) == Len(Split(s))


(***************************************************************************)
(* clean_and_prepare_captions.clean_caption                                *)
(***************************************************************************)
MAX_CAPTION_WORDS == 30

Nouns == << <<"p","e","r","s","o","n">>, <<"w","o","m","a","n">>, <<"m","a","n">>,
            <<"i","n","d","i","v","i","d","u","a","l">>, <<"g","i","r","l">>,
            <<"b","o","y">> >>

IsHas == << <<"i","s">>, <<"h","a","s">> >>

IsHasWears == << <<"i","s">>, <<"h","a","s">>, <<"w","e","a","r","s">> >>

\* the literal alternatives of  head (n1|n2|...) (v1|v2|...)  in the order
\* the regex engine tries them
NounVerbAlternatives(head, nouns, verbs) ==
    [k \in 1..(Len(nouns) * Len(verbs)) |->
        head \o nouns[((k - 1) \div Len(verbs)) + 1] \o <<" ">>
             \o verbs[((k - 1) % Len(verbs)) + 1]]

\* the literal alternatives of  head (v1|v2|...)
VerbAlternatives(head, verbs) == [k \in 1..Len(verbs) |-> head \o verbs[k]]

ThisPersonPatterns == NounVerbAlternatives(<<"T","h","i","s"," ">>, Nouns, IsHas)

ThePersonPatterns == NounVerbAlternatives(<<"T","h","e"," ">>, Nouns, IsHas)

ShePatterns == VerbAlternatives(<<"S","h","e"," ">>, IsHasWears)

HePatterns == VerbAlternatives(<<"H","e"," ">>, IsHasWears)

\* lines 29-32: the four re.sub(..., '', caption, flags=re.IGNORECASE)
RemoveRedundantPhrases(caption) ==
    ReSubIgnoreCase(HePatterns, <<>>,
      ReSubIgnoreCase(ShePatterns, <<>>,
        ReSubIgnoreCase(ThePersonPatterns, <<>>,
          ReSubIgnoreCase(ThisPersonPatterns, <<>>, caption))))

\* lines 35-36
CombineSentences(caption) ==
    StrReplace(StrReplace(caption, <<".", " ">>, <<",", " ">>), <<".", ".">>, <<".">>)

\* a slice one word too long
LimitWordsOffByOne(caption) ==
    LET words == Split(caption) IN
    IF Len(words) > MAX_CAPTION_WORDS
    THEN Join(SubSeq(words, 1, MAX_CAPTION_WORDS + 1), <<" ">>)
    ELSE caption

\* lines 48-50
LimitWords(caption) ==
    LET words == Split(caption) IN
    IF Len(words) > MAX_CAPTION_WORDS
    THEN Join(SubSeq(words, 1, MAX_CAPTION_WORDS), <<" ">>)
    ELSE caption

\* lines 53-54
Capitalize(caption) ==
    IF Len(caption) > 0 THEN <<Upper(caption[1])>> \o Tail(caption) ELSE caption

\* line 57
AddPeriod(caption) == Strip(RStrip(caption, {","}), Whitespace) \o <<".">>

CleanCaptionPrepare(caption) ==
    AddPeriod(
      Capitalize(
        LimitWords(
          Strip(
            CollapseCommas(
              CollapseWhitespace(
                CombineSentences(
                  RemoveRedundantPhrases(caption)))),
            {" ", ".", ","}))))

(***************************************************************************)
(* process_all_captions.clean_caption                                      *)
(***************************************************************************)
MAX_TEXT_CHARS == 300

\* lines 37-38
TruncateChars(text) ==
    IF Len(text) > MAX_TEXT_CHARS THEN SubSeq(text, 1, MAX_TEXT_CHARS) ELSE text

CleanCaptionProcess(text) ==
    IF Len(text) = 0 THEN <<>>
    ELSE Strip(TruncateChars(CollapseWhitespace(Strip(text, Whitespace))), Whitespace)


(***************************************************************************)
(* File names (pathlib) and paths                                          *)
(***************************************************************************)
EndsWith(s, suffix) ==
    /\ Len(suffix) <= Len(s)
    /\ SubSeq(s, Len(s) - Len(suffix) + 1, Len(s)) = suffix

\* position of the last "." of name, 0 when it has none (str.rfind)
LastDot(name) ==
    IF \E i \in 1..Len(name) : name[i] = "."
    THEN CHOOSE i \in 1..Len(name) :
            name[i] = "." /\ \A k \in (i + 1)..Len(name) : name[k] # "."
    ELSE 0

\* pathlib's PurePath.suffix: from the last dot, unless the dot leads or ends the name
Suffix(name) ==
    LET i == LastDot(name) IN
    IF 1 < i /\ i < Len(name) THEN SubSeq(name, i, Len(name)) ELSE <<>>

\* pathlib's PurePath.stem
Stem(name) ==
    LET i == LastDot(name) IN
    IF 1 < i /\ i < Len(name) THEN SubSeq(name, 1, i - 1) ELSE name

\* pathlib's PurePath.with_suffix
WithSuffix(name, suffix) == Stem(name) \o suffix

\* name.split('.')[0]: the characters before the first dot
BeforeFirstDot(name) ==
    IF \E i \in 1..Len(name) : name[i] = "."
    THEN SubSeq(name, 1, (CHOOSE i \in 1..Len(name) :
                            name[i] = "." /\ \A k \in 1..(i - 1) : name[k] # ".") - 1)
    ELSE name

TxtSuffix == <<".", "t", "x", "t">>

\* the extension list of clean_and_prepare_captions.main, in its order
PrepareExtensions ==
    << <<".","j","p","g">>, <<".","j","p","e","g">>, <<".","p","n","g">>,
       <<".","J","P","G">>, <<".","J","P","E","G">>, <<".","P","N","G">> >>

\* the glob patterns of process_all_captions.find_image_files, in their order
ProcessExtensions ==
    << <<".","j","p","g">>, <<".","j","p","e","g">>, <<".","p","n","g">>,
       <<".","J","P","G">>, <<".","P","N","G">>, <<".","J","P","E","G">> >>

\* a set as a list, in some fixed order (the order a directory scan returns)
RECURSIVE SeqOfSet(_)
SeqOfSet(S) ==
    IF S = {} THEN <<>>
    ELSE LET x == CHOOSE y \in S : TRUE IN <<x>> \o SeqOfSet(S \ {x})

\* the concatenation of a list of lists
RECURSIVE Flatten(_)
Flatten(lists) ==
    IF Len(lists) = 0 THEN <<>> ELSE Head(lists) \o Flatten(Tail(lists))

\* a path of directories: absolute, or relative to where it is resolved from
RelPath(parts) == [abs |-> FALSE, parts |-> parts]

AbsPath(parts) == [abs |-> TRUE, parts |-> parts]

\* lexical resolution of ".." components
RECURSIVE NormalizeFrom(_, _)
NormalizeFrom(done, parts) ==
    IF Len(parts) = 0 THEN done
    ELSE IF Head(parts) = ".."
         THEN NormalizeFrom(IF Len(done) = 0 THEN done
                            ELSE SubSeq(done, 1, Len(done) - 1), Tail(parts))
         ELSE NormalizeFrom(Append(done, Head(parts)), Tail(parts))

\* the absolute directory a path names when resolved from the absolute directory base
Resolve(base, path) ==
    IF path.abs THEN NormalizeFrom(<<>>, path.parts)
    ELSE NormalizeFrom(<<>>, base \o path.parts)

\* the directory the scripts are run from (SKETCHGEN/src)
Cwd == <<"SKETCHGEN", "src">>

\* IMAGE_DIR, IMG_DIR and the default img_path: "../data/images"
DefaultImageDir == RelPath(<<"..", "data", "images">>)

\* an absolute image directory typed at the prompt of process_all_captions
EnteredImageDir == AbsPath(<<"srv", "celeba", "images">>)

\* OUTPUT_TRAIN_DIR and output_dir: "../data/processed/train"
OutputTrainDir == RelPath(<<"..", "data", "processed", "train">>)

(***************************************************************************)
(* State                                                                   *)
(***************************************************************************)
VARIABLES
    rawCaption,       \* the caption string handed to the two clean_caption functions
    cleanedPrepare,   \* result of clean_and_prepare_captions.clean_caption
    cleanedProcess,   \* result of process_all_captions.clean_caption
    cleanApplied,     \* which of the two functions have been applied
    \* ---- the environment of one run of a script
    script,           \* "prepare", "process" or "generate": the script that runs
    textDirExists,    \* the caption directory exists
    imageDirMode,     \* "relative": ../data/images exists; "absolute": it does not and
                      \* an existing absolute path is entered; "missing": no image directory
    captionFiles,     \* the .txt files under the caption directory, in listing order
    images,           \* the names of the files of the image directory
    canSymlink,       \* os.symlink is permitted on this platform
    hasPandas,        \* "import pandas" succeeded (HAS_PANDAS)
    attrFileExists,   \* ../data/list_attr_celeba.csv exists
    \* ---- the run
    pc,               \* position of the script
    idx,              \* position of the running loop in its list
    results,          \* the list results
    matched_count, skipped_count, saved_count,   \* counters of clean_and_prepare_captions
    success, failed,  \* counters of process_all_captions
    matches,          \* process_all_captions: the list of (image name, caption file)
    outDirExists,     \* ../data/processed/train exists
    outDir,           \* its entries: name -> symlink, copied file or text file
    csvFiles,         \* the CSV files written: file name -> table
    console,          \* the counts printed
    returnValue,      \* "none" while main runs, else what it returned: "None", "True", "False"
    \* ---- caption_generator_finetuned
    loadAttempts,     \* outcomes of the calls of BlipForConditionalGeneration.from_pretrained
    captions,         \* the list captions
    modelSaved,       \* save_pretrained was reached
    \* ---- validate_captions
    valStatus,        \* "idle" before validate_captions.main ran, else how it ended
    df                \* the DataFrame read_csv returned

cleanVars == <<rawCaption, cleanedPrepare, cleanedProcess, cleanApplied>>

envVars == <<script, textDirExists, imageDirMode, captionFiles, images, canSymlink,
             hasPandas, attrFileExists>>

countVars == <<matched_count, skipped_count, saved_count, success, failed>>

fileVars == <<outDirExists, outDir, csvFiles>>

genVars == <<loadAttempts, captions, modelSaved>>

valVars == <<valStatus, df>>

runVars == <<envVars, pc, idx, results, countVars, matches, fileVars, console,
             returnValue, genVars, valVars>>

vars == <<cleanVars, runVars>>

EmptyMap == [x \in {} |-> x]

CleanIdle ==
    /\ rawCaption = <<>>
    /\ cleanedPrepare = <<>>
    /\ cleanedProcess = <<>>
    /\ cleanApplied = {}

RunIdle ==
    /\ script = "none"
    /\ textDirExists = FALSE
    /\ imageDirMode = "missing"
    /\ captionFiles = <<>>
    /\ images = {}
    /\ canSymlink = FALSE
    /\ hasPandas = FALSE
    /\ attrFileExists = FALSE
    /\ pc = "idle"
    /\ idx = 0
    /\ results = <<>>
    /\ matched_count = 0 /\ skipped_count = 0 /\ saved_count = 0
    /\ success = 0 /\ failed = 0
    /\ matches = <<>>
    /\ outDirExists = FALSE
    /\ outDir = EmptyMap
    /\ csvFiles = EmptyMap
    /\ console = <<>>
    /\ returnValue = "none"
    /\ loadAttempts = <<>>
    /\ captions = <<>>
    /\ modelSaved = FALSE
    /\ valStatus = "idle"
    /\ df = <<>>

(***************************************************************************)
(* The file system the scripts see                                         *)
(***************************************************************************)
\* the image directory as the running script names it
ImageDirPath ==
    IF script = "process" /\ imageDirMode = "absolute"
    THEN EnteredImageDir ELSE DefaultImageDir

ImageDirAbs == Resolve(Cwd, ImageDirPath)

OutDirAbs == Resolve(Cwd, OutputTrainDir)

\* entries of the output directory; a copied file records the image it was copied from
SymlinkEntry(dir, name) == [kind |-> "symlink", dir |-> dir, name |-> name, text |-> <<>>]

FileEntry(dir, name) == [kind |-> "file", dir |-> dir, name |-> name, text |-> <<>>]

TextEntry(text) == [kind |-> "text", dir |-> RelPath(<<>>), name |-> <<>>, text |-> text]

\* a symbolic link's target is resolved from the directory that holds the link
LinkTargetExists(e) ==
    /\ Resolve(OutDirAbs, e.dir) = ImageDirAbs
    /\ e.name \in images

\* Path.exists(): follows symbolic links
Exists(out, name) ==
    /\ name \in DOMAIN out
    /\ out[name].kind = "symlink" => LinkTargetExists(out[name])

\* the source image whose bytes an entry of the output directory yields when read,
\* <<>> when reading it fails
ImageBehind(out, name) ==
    IF name \notin DOMAIN out THEN <<>>
    ELSE IF out[name].kind = "file" THEN out[name].name
    ELSE IF out[name].kind = "symlink" /\ LinkTargetExists(out[name]) THEN out[name].name
    ELSE <<>>

\* "if not dst.exists(): try: os.symlink(src, dst) except: shutil.copy2(src, dst)"
\* ok is FALSE when copy2 raised; copyFails: copy2 meets an I/O error
PlaceImage(out, srcDir, srcName, dstName, copyFails) ==
    IF Exists(out, dstName) THEN [ok |-> TRUE, out |-> out]
    ELSE IF canSymlink /\ dstName \notin DOMAIN out
         THEN [ok |-> TRUE, out |-> (dstName :> SymlinkEntry(srcDir, srcName)) @@ out]
         \* os.symlink raised.  copy2 onto a dangling link writes through the link
         \* into a directory that does not exist, and raises FileNotFoundError
         ELSE IF copyFails \/ dstName \in DOMAIN out
              THEN [ok |-> FALSE, out |-> out]
              ELSE [ok |-> TRUE, out |-> (dstName :> FileEntry(srcDir, srcName)) @@ out]

\* a write that leaves a caption file that is already there as it is
WriteCaptionKeepExisting(out, txtName, text, fault) ==
    IF fault = "open" THEN [ok |-> FALSE, out |-> out]
    ELSE IF fault = "write" THEN [ok |-> FALSE, out |-> (txtName :> TextEntry(<<>>)) @@ out]
    ELSE IF txtName \in DOMAIN out THEN [ok |-> TRUE, out |-> out]
    ELSE [ok |-> TRUE, out |-> (txtName :> TextEntry(text)) @@ out]

\* "with open(txt, 'w') as f: f.write(caption)"; fault: "none", "open" (open raises,
\* nothing is touched) or "write" (the file is created or truncated, then write raises)
WriteCaption(out, txtName, text, fault) ==
    IF fault = "open" THEN [ok |-> FALSE, out |-> out]
    ELSE IF fault = "write" THEN [ok |-> FALSE, out |-> (txtName :> TextEntry(<<>>)) @@ out]
    ELSE [ok |-> TRUE, out |-> (txtName :> TextEntry(text)) @@ out]

WriteFaults == {"none", "open", "write"}

(***************************************************************************)
(* CSV files: DataFrame.to_csv(index=False) and pandas.read_csv            *)
(*                                                                         *)
(* A table is its header and, per row, the text of each field as it        *)
(* stands in the file.                                                     *)
(***************************************************************************)
\* the characters that make csv.QUOTE_MINIMAL quote a field
CsvSpecial == {",", "\"", "\n", "\r"}

\* the text to_csv writes for a string value
QuoteField(text) ==
    IF \E i \in 1..Len(text) : text[i] \in CsvSpecial
    THEN <<"\"">> \o StrReplace(text, <<"\"">>, <<"\"", "\"">>) \o <<"\"">>
    ELSE text

\* the string the parser yields for the text of a field
ParseField(field) ==
    IF Len(field) >= 2 /\ field[1] = "\"" /\ field[Len(field)] = "\""
    THEN StrReplace(SubSeq(field, 2, Len(field) - 1), <<"\"", "\"">>, <<"\"">>)
    ELSE field

\* pd.DataFrame(records).to_csv(path, index=False)
ToCsv(records, columns) ==
    [columns |-> columns,
     rows |-> [i \in 1..Len(records) |->
                 [j \in 1..Len(columns) |-> QuoteField(records[i][columns[j]])]]]

\* the strings read_csv takes for a missing value by default (those of at most
\* four characters)
NaValues ==
    { <<>>, <<"N","A">>, <<"N","U","L","L">>, <<"N","a","N">>, <<"n","a","n">>,
      <<"n","u","l","l">>, <<"N","o","n","e">>, <<"N","/","A">>, <<"n","/","a">>,
      <<"#","N","A">>, <<"<","N","A",">">>, <<"-","n","a","n">>, <<"-","N","a","N">>,
      <<"#","N","/","A">> }

\* the missing value NaN: no string
NaN == <<"<NaN>">>

\* pd.read_csv(path): a field that spells a missing value becomes NaN
ReadCsv(table) ==
    [columns |-> table.columns,
     rows |-> [i \in 1..Len(table.rows) |->
                 [j \in 1..Len(table.columns) |->
                     LET v == ParseField(table.rows[i][j]) IN
                     IF v \in NaValues THEN NaN ELSE v]]]

\* position of a column in a header, 0 when absent
ColumnIndex(columns, name) == IndexIn(name, columns)

FinalCaptionsCsv == "../data/captions/final_captions.csv"

GeneratedCaptionsCsv == "../data/captions/fine_tuned_criminal_captions.csv"

(***************************************************************************)
(* The environments of a run                                               *)
(***************************************************************************)
MaxCaptionFiles == 2

MaxImages == 2

\* what a caption file holds: text readable as UTF-8, bytes only latin-1 decodes,
\* or a file no open() can read
Contents ==
    { [kind |-> "utf8", text |-> <<"N","A">>],
      [kind |-> "utf8",
       text |-> <<"H","e"," ","i","s"," ","t","a","l","l",","," ","b","a","l","d",".","\n">>],
      [kind |-> "latin1", text |-> <<"B","a","l","d"," ","m","a","n">>],
      [kind |-> "unreadable", text |-> <<>>] }

CaptionNames == { <<"a",".","t","x","t">>, <<"a",".","b",".","t","x","t">> }

\* "." is the caption directory itself, "sub" a folder below it
Folders == {".", "sub"}

CaptionFileSet == [folder : Folders, name : CaptionNames, content : Contents]

CaptionFileLists ==
    UNION { { s \in [1..n -> CaptionFileSet] :
                \A i, j \in 1..n :
                    (s[i].folder = s[j].folder /\ s[i].name = s[j].name) => i = j }
            : n \in 0..MaxCaptionFiles }

ImageCandidates ==
    { <<"a",".","j","p","g">>, <<"a",".","p","n","g">>,
      <<"a",".","b",".","j","p","g">>, <<"a",".","J","p","g">> }

ImageSets == { S \in SUBSET ImageCandidates : Cardinality(S) <= MaxImages }

RunInit ==
    /\ script \in {"prepare", "process", "generate"}
    /\ textDirExists \in (IF script = "generate" THEN {TRUE} ELSE BOOLEAN)
    /\ imageDirMode \in (IF script = "process" THEN {"relative", "absolute", "missing"}
                         ELSE {"relative", "missing"})
    /\ captionFiles \in (IF textDirExists /\ script # "generate"
                         THEN CaptionFileLists ELSE {<<>>})
    /\ images \in (IF imageDirMode = "missing" THEN {{}} ELSE ImageSets)
    /\ canSymlink \in (IF script = "generate" THEN {TRUE} ELSE BOOLEAN)
    /\ hasPandas \in (IF script = "process" THEN BOOLEAN ELSE {TRUE})
    /\ attrFileExists \in (IF script = "generate" THEN BOOLEAN ELSE {FALSE})
    /\ pc = "start"
    /\ idx = 0
    /\ results = <<>>
    /\ matched_count = 0 /\ skipped_count = 0 /\ saved_count = 0
    /\ success = 0 /\ failed = 0
    /\ matches = <<>>
    /\ outDirExists = FALSE
    /\ outDir = EmptyMap
    /\ csvFiles = EmptyMap
    /\ console = <<>>
    /\ returnValue = "none"
    /\ loadAttempts = <<>>
    /\ captions = <<>>
    /\ modelSaved = FALSE
    /\ valStatus = "idle"
    /\ df = <<>>

Init == RunInit /\ CleanIdle

(***************************************************************************)
(* clean_and_prepare_captions.main                                         *)
(***************************************************************************)
MIN_CAPTION_CHARS == 5

\* Path(TEXT_DIR).glob("*.txt"): the .txt files of the directory itself
PrepCaptionFiles ==
    SelectSeq(captionFiles, LAMBDA f : f.folder = "." /\ EndsWith(f.name, TxtSuffix))

\* the first name  stem + ext, ext in the order of exts, that the image directory
\* holds; <<>> when it holds none
FirstExisting(stem, exts) ==
    IF \E k \in 1..Len(exts) : (stem \o exts[k]) \in images
    THEN stem \o exts[CHOOSE k \in 1..Len(exts) :
                        /\ (stem \o exts[k]) \in images
                        /\ \A m \in 1..(k - 1) : (stem \o exts[m]) \notin images]
    ELSE <<>>

\* lines 62-89
PrepStart ==
    /\ script = "prepare" /\ pc = "start"
    /\ IF ~textDirExists
       THEN /\ pc' = "returned" /\ returnValue' = "None"
            /\ console' = Append(console, [msg |-> "caption directory not found", n |-> 0])
            /\ UNCHANGED idx
       ELSE IF imageDirMode = "missing"
       THEN /\ pc' = "returned" /\ returnValue' = "None"
            /\ console' = Append(console, [msg |-> "image directory not found", n |-> 0])
            /\ UNCHANGED idx
       ELSE IF Len(PrepCaptionFiles) = 0
       THEN /\ pc' = "returned" /\ returnValue' = "None"
            /\ console' = Append(console, [msg |-> "found caption files", n |-> 0])
            /\ UNCHANGED idx
       ELSE /\ pc' = "scan" /\ idx' = 1
            /\ console' = Append(console, [msg |-> "found caption files",
                                           n |-> Len(PrepCaptionFiles)])
            /\ UNCHANGED returnValue
    /\ UNCHANGED <<cleanVars, envVars, results, countVars, matches, fileVars,
                   genVars, valVars>>

\* one pass of the loop of lines 93-136
PrepScanFile ==
    /\ script = "prepare" /\ pc = "scan"
    /\ LET caption_file == PrepCaptionFiles[idx]
           image_name == Stem(caption_file.name)
           image_filename == FirstExisting(image_name, PrepareExtensions)
           original_caption == Strip(caption_file.content.text, Whitespace)
       IN IF image_filename = <<>>
          THEN /\ skipped_count' = skipped_count + 1
               /\ UNCHANGED <<results, matched_count>>
          ELSE IF caption_file.content.kind # "utf8"
          \* open() or the UTF-8 decoding raised
          THEN /\ skipped_count' = skipped_count + 1
               /\ UNCHANGED <<results, matched_count>>
          ELSE IF Len(original_caption) < MIN_CAPTION_CHARS
          THEN /\ skipped_count' = skipped_count + 1
               /\ UNCHANGED <<results, matched_count>>
          ELSE /\ results' = Append(results,
                      [image_id |-> image_filename,
                       original_caption |-> original_caption,
                       cleaned_caption |-> CleanCaptionPrepare(original_caption)])
               /\ matched_count' = matched_count + 1
               /\ UNCHANGED skipped_count
    /\ IF idx < Len(PrepCaptionFiles)
       THEN idx' = idx + 1 /\ pc' = "scan"
       ELSE idx' = 0 /\ pc' = "report"
    /\ UNCHANGED <<cleanVars, envVars, saved_count, success, failed, matches, fileVars,
                   console, returnValue, genVars, valVars>>

PrepareColumns == <<"image_id", "original_caption", "cleaned_caption">>

\* the message of line 140, printed when skipped_count > 0
SkippedMessage == "Skipped N files (no matching image)"

\* a report step that saves the table and makes the output directory before it
\* tests matched_count
PrepReportSaveFirst ==
    /\ script = "prepare" /\ pc = "report"
    /\ console' = Append(console, [msg |-> "Matched N image-caption pairs",
                                   n |-> matched_count])
    /\ csvFiles' = (FinalCaptionsCsv :> ToCsv(results, PrepareColumns)) @@ csvFiles
    /\ outDirExists' = TRUE
    /\ IF matched_count = 0
       THEN pc' = "returned" /\ returnValue' = "None" /\ UNCHANGED idx
       ELSE pc' = "copy" /\ idx' = 1 /\ UNCHANGED returnValue
    /\ UNCHANGED <<cleanVars, envVars, results, countVars, matches, outDir, genVars,
                   valVars>>

\* lines 138-182
PrepReportSave ==
    /\ script = "prepare" /\ pc = "report"
    /\ LET out1 == Append(console, [msg |-> "Matched N image-caption pairs",
                                    n |-> matched_count])
           out2 == IF skipped_count > 0
                   THEN Append(out1, [msg |-> SkippedMessage, n |-> skipped_count])
                   ELSE out1
       IN console' = out2
    /\ IF matched_count = 0
       THEN /\ pc' = "returned" /\ returnValue' = "None"
            /\ UNCHANGED <<idx, fileVars>>
       ELSE /\ csvFiles' = (FinalCaptionsCsv :> ToCsv(results, PrepareColumns)) @@ csvFiles
            /\ outDirExists' = TRUE
            /\ pc' = "copy" /\ idx' = 1
            /\ UNCHANGED <<returnValue, outDir>>
    /\ UNCHANGED <<cleanVars, envVars, results, countVars, matches, genVars, valVars>>

\* lines 188-198: the source image of a row
PrepSourceImage(image_id) ==
    LET found == FirstExisting(BeforeFirstDot(image_id), PrepareExtensions)
    IN IF found # <<>> THEN found ELSE image_id

\* one pass of the loop of lines 184-215; an exception leaves main
PrepCopyRow ==
    /\ script = "prepare" /\ pc = "copy"
    /\ \E copyFails \in BOOLEAN, fault \in WriteFaults :
         LET row == results[idx]
             image_id == row.image_id
             src_image == PrepSourceImage(image_id)
             placed == PlaceImage(outDir, ImageDirPath, src_image, image_id, copyFails)
             written == WriteCaption(placed.out, WithSuffix(image_id, TxtSuffix),
                                     row.cleaned_caption, fault)
             more == IF idx < Len(results) THEN "copy" ELSE "finish"
         IN IF src_image \notin images
            THEN /\ pc' = more
                 /\ UNCHANGED <<outDir, saved_count>>
            ELSE IF ~placed.ok
            THEN /\ pc' = "crashed"
                 /\ outDir' = placed.out
                 /\ UNCHANGED saved_count
            ELSE IF ~written.ok
            THEN /\ pc' = "crashed"
                 /\ outDir' = written.out
                 /\ UNCHANGED saved_count
            ELSE /\ pc' = more
                 /\ outDir' = written.out
                 /\ saved_count' = saved_count + 1
    /\ idx' = idx + 1
    /\ UNCHANGED <<cleanVars, envVars, results, matched_count, skipped_count, success,
                   failed, matches, outDirExists, csvFiles, console, returnValue,
                   genVars, valVars>>

\* lines 217-228
PrepFinish ==
    /\ script = "prepare" /\ pc = "finish"
    /\ console' = Append(console, [msg |-> "Saved N image-caption pairs",
                                   n |-> saved_count])
    /\ pc' = "done" /\ returnValue' = "None"
    /\ UNCHANGED <<cleanVars, envVars, idx, results, countVars, matches, fileVars,
                   genVars, valVars>>

(***************************************************************************)
(* process_all_captions                                                    *)
(***************************************************************************)
\* find_caption_files: Path(start_path).rglob("*.txt")
FindCaptionFiles ==
    IF ~textDirExists THEN <<>>
    ELSE SelectSeq(captionFiles, LAMBDA f : EndsWith(f.name, TxtSuffix))

\* find_image_files: one glob per pattern, in the order of the patterns
FindImageFiles ==
    IF imageDirMode = "missing" THEN <<>>
    ELSE Flatten([k \in 1..Len(ProcessExtensions) |->
                    SeqOfSet({n \in images : EndsWith(n, ProcessExtensions[k])})])

\* position of the first image of the list whose stem is stem, 0 when there is none
FirstWithStem(image_list, stem) ==
    IF \E k \in 1..Len(image_list) : Stem(image_list[k]) = stem
    THEN CHOOSE k \in 1..Len(image_list) :
            /\ Stem(image_list[k]) = stem
            /\ \A m \in 1..(k - 1) : Stem(image_list[m]) # stem
    ELSE 0

\* the loop without its break: every image of the stem is paired
RECURSIVE MatchWithoutBreak(_, _)
MatchWithoutBreak(caption_list, image_list) ==
    IF Len(caption_list) = 0 THEN <<>>
    ELSE LET cap_file == Head(caption_list)
             same == SelectSeq(image_list, LAMBDA n : Stem(n) = Stem(cap_file.name))
         IN [k \in 1..Len(same) |-> [img |-> same[k], cap |-> cap_file]]
            \o MatchWithoutBreak(Tail(caption_list), image_list)

\* match_images_captions
RECURSIVE MatchImagesCaptions(_, _)
MatchImagesCaptions(caption_list, image_list) ==
    IF Len(caption_list) = 0 THEN <<>>
    ELSE LET cap_file == Head(caption_list)
             k == FirstWithStem(image_list, Stem(cap_file.name))
         IN (IF k = 0 THEN <<>> ELSE << [img |-> image_list[k], cap |-> cap_file] >>)
            \o MatchImagesCaptions(Tail(caption_list), image_list)

Encodings == <<"utf-8", "utf-8-sig", "latin-1", "cp1252", "iso-8859-1">>

\* open(filepath, 'r', encoding=enc).read() returns, rather than raises
Decodes(content, enc) ==
    \/ content.kind = "utf8"
    \/ content.kind = "latin1" /\ enc \in {"latin-1", "cp1252", "iso-8859-1"}

\* read_caption_file: the text under the first encoding that reads, or None
ReadCaptionFile(content) ==
    IF \E k \in 1..Len(Encodings) : Decodes(content, Encodings[k])
    THEN [ok |-> TRUE, text |-> content.text]
    ELSE [ok |-> FALSE, text |-> <<>>]

\* lines 90-166
ProcStart ==
    /\ script = "process" /\ pc = "start"
    /\ IF ~textDirExists
       THEN /\ pc' = "returned" /\ returnValue' = "False"
            /\ console' = Append(console, [msg |-> "Path doesn't exist!", n |-> 0])
            /\ UNCHANGED <<idx, matches, outDirExists>>
       ELSE IF Len(FindCaptionFiles) = 0
       THEN /\ pc' = "returned" /\ returnValue' = "False"
            /\ console' = Append(console, [msg |-> "Found N .txt files", n |-> 0])
            /\ UNCHANGED <<idx, matches, outDirExists>>
       ELSE IF Len(FindImageFiles) = 0
       THEN /\ pc' = "returned" /\ returnValue' = "False"
            /\ console' = console \o
                  << [msg |-> "Found N .txt files", n |-> Len(FindCaptionFiles)],
                     [msg |-> "Found N image files", n |-> 0] >>
            /\ UNCHANGED <<idx, matches, outDirExists>>
       ELSE LET found == MatchImagesCaptions(FindCaptionFiles, FindImageFiles)
                said == console \o
                  << [msg |-> "Found N .txt files", n |-> Len(FindCaptionFiles)],
                     [msg |-> "Found N image files", n |-> Len(FindImageFiles)],
                     [msg |-> "Matched N pairs", n |-> Len(found)] >>
            IN /\ matches' = found
               /\ console' = said
               /\ IF Len(found) = 0
                  THEN /\ pc' = "returned" /\ returnValue' = "False"
                       /\ UNCHANGED <<idx, outDirExists>>
                  ELSE /\ pc' = "pairs" /\ idx' = 1
                       /\ outDirExists' = TRUE
                       /\ UNCHANGED returnValue
    /\ UNCHANGED <<cleanVars, envVars, results, countVars, outDir, csvFiles,
                   genVars, valVars>>

\* one pass of the loop of lines 170-202; every exception is caught and counted
ProcPair ==
    /\ script = "process" /\ pc = "pairs"
    /\ \E copyFails \in BOOLEAN, fault \in WriteFaults :
         LET img_file == matches[idx].img
             cap_file == matches[idx].cap
             read == ReadCaptionFile(cap_file.content)
             caption_text == CleanCaptionProcess(read.text)
             placed == PlaceImage(outDir, ImageDirPath, img_file, img_file, copyFails)
             written == WriteCaption(placed.out, WithSuffix(img_file, TxtSuffix),
                                     caption_text, fault)
         IN IF ~read.ok \/ Len(read.text) = 0
            THEN /\ failed' = failed + 1
                 /\ UNCHANGED <<outDir, results, success>>
            ELSE IF ~placed.ok
            THEN /\ failed' = failed + 1
                 /\ outDir' = placed.out
                 /\ UNCHANGED <<results, success>>
            ELSE IF ~written.ok
            THEN /\ failed' = failed + 1
                 /\ outDir' = written.out
                 /\ UNCHANGED <<results, success>>
            ELSE /\ outDir' = written.out
                 /\ results' = Append(results, [image_id |-> img_file,
                                                caption |-> caption_text])
                 /\ success' = success + 1
                 /\ UNCHANGED failed
    /\ IF idx < Len(matches)
       THEN idx' = idx + 1 /\ pc' = "pairs"
       ELSE idx' = 0 /\ pc' = "finish"
    /\ UNCHANGED <<cleanVars, envVars, matched_count, skipped_count, saved_count,
                   matches, outDirExists, csvFiles, console, returnValue,
                   genVars, valVars>>

ProcessColumns == <<"image_id", "caption">>

\* a final step that tests the matched pairs where the code tests the records
ProcFinishOnMatches ==
    /\ script = "process" /\ pc = "finish"
    /\ console' = console \o
          << [msg |-> "Successfully processed: N", n |-> success],
             [msg |-> "Failed: N", n |-> failed],
             [msg |-> "Total: N image-caption pairs", n |-> Len(results)] >>
    /\ IF Len(matches) > 0
       THEN /\ csvFiles' = IF hasPandas
                           THEN (FinalCaptionsCsv :> ToCsv(results, ProcessColumns))
                                @@ csvFiles
                           ELSE csvFiles
            /\ returnValue' = "True"
       ELSE /\ returnValue' = "False"
            /\ UNCHANGED csvFiles
    /\ pc' = "done"
    /\ UNCHANGED <<cleanVars, envVars, idx, results, countVars, matches, outDirExists,
                   outDir, genVars, valVars>>

\* lines 204-239
ProcFinish ==
    /\ script = "process" /\ pc = "finish"
    /\ console' = console \o
          << [msg |-> "Successfully processed: N", n |-> success],
             [msg |-> "Failed: N", n |-> failed],
             [msg |-> "Total: N image-caption pairs", n |-> Len(results)] >>
    /\ IF Len(results) > 0
       THEN /\ csvFiles' = IF hasPandas
                           THEN (FinalCaptionsCsv :> ToCsv(results, ProcessColumns))
                                @@ csvFiles
                           ELSE csvFiles
            /\ returnValue' = "True"
       ELSE /\ returnValue' = "False"
            /\ UNCHANGED csvFiles
    /\ pc' = "done"
    /\ UNCHANGED <<cleanVars, envVars, idx, results, countVars, matches, outDirExists,
                   outDir, genVars, valVars>>

(***************************************************************************)
(* caption_generator_finetuned                                             *)
(***************************************************************************)
\* make_criminal_style_caption; base_caption is not used by it
MakeCriminalStyleCaption(attributes) ==
    LET gender == IF "Male" \in attributes THEN <<"m","a","l","e">>
                  ELSE <<"f","e","m","a","l","e">>
        emotion ==
            IF "Surprised" \in attributes
            THEN <<"s","u","r","p","r","i","s","e","d"," ","e","x","p","r","e","s","s","i","o","n">>
            ELSE IF "Sad" \in attributes THEN <<"s","a","d"," ","f","a","c","e">>
            ELSE IF "Angry" \in attributes THEN <<"a","n","g","r","y"," ","l","o","o","k">>
            ELSE IF "Smiling" \in attributes
            THEN <<"s","m","i","l","i","n","g"," ","e","x","p","r","e","s","s","i","o","n">>
            ELSE <<"n","e","u","t","r","a","l"," ","e","x","p","r","e","s","s","i","o","n">>
        hair ==
            IF "Bald" \in attributes THEN <<"b","a","l","d"," ","h","e","a","d">>
            ELSE IF "Black_Hair" \in attributes THEN <<"b","l","a","c","k"," ","h","a","i","r">>
            ELSE IF "Blond_Hair" \in attributes THEN <<"b","l","o","n","d"," ","h","a","i","r">>
            ELSE IF "Brown_Hair" \in attributes THEN <<"b","r","o","w","n"," ","h","a","i","r">>
            ELSE IF "Gray_Hair" \in attributes THEN <<"g","r","a","y"," ","h","a","i","r">>
            ELSE <<"s","h","o","r","t"," ","h","a","i","r">>
        beard ==
            IF "Beard" \in attributes \/ "Goatee" \in attributes
            THEN <<"w","i","t","h"," ","f","a","c","i","a","l"," ","h","a","i","r">>
            ELSE <<"n","o"," ","b","e","a","r","d">>
    IN <<"A"," ">> \o gender \o <<" ","s","u","s","p","e","c","t"," ","w","i","t","h"," ">>
       \o hair \o <<","," ">> \o beard \o <<","," ","a","n","d"," ","a"," ">>
       \o emotion \o <<".">>

\* the rows of list_attr_celeba.csv: image_id -> the attributes whose flag is 1
AttrRows ==
    (<<"a",".","j","p","g">> :> {"Male", "Smiling", "Black_Hair", "Goatee"})
    @@ (<<"a",".","p","n","g">> :> {"Bald", "Sad"})

\* lines 116-120
AttributesOf(img_name) ==
    IF attrFileExists /\ img_name \in DOMAIN AttrRows THEN AttrRows[img_name] ELSE {}

\* str.lower() of a string
LowerAll(s) == [i \in 1..Len(s) |-> Lower(s[i])]

\* line 106: img_name.lower().endswith((".jpg", ".png"))
IsGeneratorImage(img_name) ==
    \/ EndsWith(LowerAll(img_name), <<".","j","p","g">>)
    \/ EndsWith(LowerAll(img_name), <<".","p","n","g">>)

\* os.listdir(IMG_DIR)
ListImageDir == SeqOfSet(images)

LoadOutcomes == {"ok", "ValueError", "OtherError"}

\* line 38: BlipProcessor.from_pretrained returns or raises
GenLoadProcessor ==
    /\ script = "generate" /\ pc = "start"
    /\ \E ok \in BOOLEAN : pc' = IF ok THEN "load_model" ELSE "crashed"
    /\ UNCHANGED <<cleanVars, envVars, idx, results, countVars, matches, fileVars,
                   console, returnValue, genVars, valVars>>

\* lines 41-44: the first call of BlipForConditionalGeneration.from_pretrained
GenLoadModel ==
    /\ script = "generate" /\ pc = "load_model"
    /\ \E outcome \in LoadOutcomes :
         /\ loadAttempts' = Append(loadAttempts, outcome)
         /\ pc' = CASE outcome = "ok" -> "setup"
                    [] outcome = "ValueError" -> "fallback"
                    [] OTHER -> "crashed"
    /\ UNCHANGED <<cleanVars, envVars, idx, results, countVars, matches, fileVars,
                   console, returnValue, captions, modelSaved, valVars>>

\* a fallback that tries again whenever the load raises ValueError
GenLoadFallbackRetry ==
    /\ script = "generate" /\ pc = "fallback"
    /\ \E outcome \in LoadOutcomes :
         /\ loadAttempts' = Append(loadAttempts, outcome)
         /\ pc' = CASE outcome = "ok" -> "setup"
                    [] outcome = "ValueError" -> "fallback"
                    [] OTHER -> "crashed"
    /\ UNCHANGED <<cleanVars, envVars, idx, results, countVars, matches, fileVars,
                   console, returnValue, captions, modelSaved, valVars>>

\* lines 45-52: the except ValueError clause calls from_pretrained once more
GenLoadFallback ==
    /\ script = "generate" /\ pc = "fallback"
    /\ \E outcome \in LoadOutcomes :
         /\ loadAttempts' = Append(loadAttempts, outcome)
         /\ pc' = IF outcome = "ok" THEN "setup" ELSE "crashed"
    /\ UNCHANGED <<cleanVars, envVars, idx, results, countVars, matches, fileVars,
                   console, returnValue, captions, modelSaved, valVars>>

\* lines 54-105: model.to(device), the attribute table, os.listdir(IMG_DIR)
GenSetup ==
    /\ script = "generate" /\ pc = "setup"
    /\ IF imageDirMode = "missing"
       THEN pc' = "crashed" /\ UNCHANGED idx
       ELSE IF Len(ListImageDir) = 0
       THEN pc' = "save" /\ UNCHANGED idx
       ELSE pc' = "images" /\ idx' = 1
    /\ UNCHANGED <<cleanVars, envVars, results, countVars, matches, fileVars,
                   console, returnValue, genVars, valVars>>

\* one pass of the loop of lines 105-123; Image.open may raise
GenImage ==
    /\ script = "generate" /\ pc = "images"
    /\ LET img_name == ListImageDir[idx]
           more == IF idx < Len(ListImageDir) THEN "images" ELSE "save"
       IN IF ~IsGeneratorImage(img_name)
          THEN pc' = more /\ UNCHANGED captions
          ELSE \E opens \in BOOLEAN :
                 IF opens
                 THEN /\ captions' = Append(captions,
                            [image |-> img_name,
                             caption |-> MakeCriminalStyleCaption(AttributesOf(img_name))])
                      /\ pc' = more
                 ELSE pc' = "crashed" /\ UNCHANGED captions
    /\ idx' = idx + 1
    /\ UNCHANGED <<cleanVars, envVars, results, countVars, matches, fileVars,
                   console, returnValue, loadAttempts, modelSaved, valVars>>

\* the columns of pd.DataFrame(captions): the keys of its records
GeneratorColumns == IF Len(captions) = 0 THEN <<>> ELSE <<"image", "caption">>

\* lines 128-135
GenSave ==
    /\ script = "generate" /\ pc = "save"
    /\ csvFiles' = (GeneratedCaptionsCsv :> ToCsv(captions, GeneratorColumns)) @@ csvFiles
    /\ modelSaved' = TRUE
    /\ pc' = "done"
    /\ UNCHANGED <<cleanVars, envVars, idx, results, countVars, matches, outDirExists,
                   outDir, console, returnValue, loadAttempts, captions, valVars>>

(***************************************************************************)
(* validate_captions.main, run after a script has ended                    *)
(***************************************************************************)
RunEnded == pc \in {"done", "returned", "crashed"}

\* lines 33-42: the caption column, "" when the table has neither
CaptionColumn(columns) ==
    IF ColumnIndex(columns, "cleaned_caption") # 0 THEN "cleaned_caption"
    ELSE IF ColumnIndex(columns, "caption") # 0 THEN "caption"
    ELSE ""

\* how validate_captions.main ends on a table read from CSV_FILE
ValidateOutcome(table) ==
    LET col == CaptionColumn(table.columns)
        c == ColumnIndex(table.columns, col)
    IN IF col = "" THEN "no caption column"
       \* line 54: row['image_id']
       ELSE IF Len(table.rows) > 0 /\ ColumnIndex(table.columns, "image_id") = 0
       THEN "KeyError"
       \* line 67: a column that holds no string is numeric, and .str raises
       ELSE IF \A i \in 1..Len(table.rows) : table.rows[i][c] = NaN
       THEN "AttributeError"
       ELSE "ok"

Validate ==
    /\ RunEnded /\ valStatus = "idle"
    /\ IF FinalCaptionsCsv \notin DOMAIN csvFiles
       THEN /\ valStatus' = "file not found"
            /\ UNCHANGED df
       ELSE /\ df' = ReadCsv(csvFiles[FinalCaptionsCsv])
            /\ valStatus' = ValidateOutcome(ReadCsv(csvFiles[FinalCaptionsCsv]))
    /\ UNCHANGED <<cleanVars, envVars, pc, idx, results, countVars, matches, fileVars,
                   console, returnValue, genVars>>

(***************************************************************************)
(* The cleaning functions on generated caption strings                     *)
(***************************************************************************)
MaxInputWords == 33

WordCycles ==
    { << <<"a">> >>,
      << <<"T","h","i","s">>, <<"m","a","n">>, <<"h","a","s">>, <<"h","a","i","r",".">>,
         <<"S","h","e">>, <<"i","s">>, <<"y","o","u","n","g",",">> >>,
      << <<"e","x","t","r","a","o","r","d","i","n","a","r","i","l","y">> >>,
      << <<",">> >> }

Separators == { <<" ">>, <<" ", " ", "\n">>, <<".", " ">>, <<",", " ">> }

Prefixes == { <<>>, <<" ", ".", ",">> }

Suffixes == { <<>>, <<",">> }

\* n words taken cyclically from cycle, joined by sep, between pre and suf
BuildCaption(n, cycle, sep, pre, suf) ==
    pre \o Join([i \in 1..n |-> cycle[((i - 1) % Len(cycle)) + 1]], sep) \o suf

InputCaptions ==
    { BuildCaption(n, cycle, sep, pre, suf) :
        n \in 0..MaxInputWords, cycle \in WordCycles, sep \in Separators,
        pre \in Prefixes, suf \in Suffixes }

CleanInit ==
    /\ rawCaption \in InputCaptions
    /\ cleanedPrepare = <<>>
    /\ cleanedProcess = <<>>
    /\ cleanApplied = {}
    /\ RunIdle

ApplyCleanPrepare ==
    /\ "prepare" \notin cleanApplied
    /\ cleanedPrepare' = CleanCaptionPrepare(rawCaption)
    /\ cleanApplied' = cleanApplied \cup {"prepare"}
    /\ UNCHANGED <<rawCaption, cleanedProcess, runVars>>

ApplyCleanProcess ==
    /\ "process" \notin cleanApplied
    /\ cleanedProcess' = CleanCaptionProcess(rawCaption)
    /\ cleanApplied' = cleanApplied \cup {"process"}
    /\ UNCHANGED <<rawCaption, cleanedPrepare, runVars>>

CleanNext == ApplyCleanPrepare \/ ApplyCleanProcess

SpecClean == CleanInit /\ [][CleanNext]_vars

(***************************************************************************)
(* The runs of the scripts                                                 *)
(***************************************************************************)
Next ==
    \/ PrepStart \/ PrepScanFile \/ PrepReportSave \/ PrepCopyRow \/ PrepFinish
    \/ ProcStart \/ ProcPair \/ ProcFinish
    \/ GenLoadProcessor \/ GenLoadModel \/ GenLoadFallback \/ GenSetup \/ GenImage
    \/ GenSave
    \/ Validate

Spec == Init /\ [][Next]_vars

(***************************************************************************)
(* Properties                                                              *)
(***************************************************************************)
BothCleaned == cleanApplied = {"prepare", "process"}

\* C1 as stated: the cleaned caption of either clean_caption has at most
\* MAX_CAPTION_WORDS whitespace-separated words.
C1_WordLimitBoth ==
    /\ "prepare" \in cleanApplied => WordCount(cleanedPrepare) <= MAX_CAPTION_WORDS
    /\ "process" \in cleanApplied => WordCount(cleanedProcess) <= MAX_CAPTION_WORDS

\* C1 amended: clean_caption of clean_and_prepare_captions yields at most
\* MAX_CAPTION_WORDS words; clean_caption of process_all_captions has no word limit
\* and yields at most MAX_TEXT_CHARS characters, hence at most 150 words.
C1_WordLimitPrepareCharLimitProcess ==
    /\ "prepare" \in cleanApplied => WordCount(cleanedPrepare) <= MAX_CAPTION_WORDS
    /\ "process" \in cleanApplied =>
          /\ Len(cleanedProcess) <= MAX_TEXT_CHARS
          /\ 2 * WordCount(cleanedProcess) <= MAX_TEXT_CHARS + 1

\* a caption of more words than the limit and more characters than the cut, cleaned
\* by both functions: the first keeps exactly the limit, the second is cut
C1_Witness ==
    /\ BothCleaned
    /\ WordCount(rawCaption) > MAX_CAPTION_WORDS
    /\ Len(rawCaption) > MAX_TEXT_CHARS
    /\ WordCount(cleanedPrepare) = MAX_CAPTION_WORDS
    /\ Len(cleanedProcess) + 1 >= MAX_TEXT_CHARS

\* ---- pairing of images and captions
Range(s) == {s[i] : i \in 1..Len(s)}

\* rank of an image's extension in an extension list, 0 when it is not listed
ExtRank(name, exts) == IndexIn(Suffix(name), exts)

ListedImages == {n \in images : ExtRank(n, ProcessExtensions) # 0}

\* all pairs of a listed image and a found caption file of equal stem
StemPairs ==
    {p \in ListedImages \X Range(FindCaptionFiles) : Stem(p[1]) = Stem(p[2].name)}

\* the pairs the code builds: an image looked up for each caption
ForwardPairs == {<<matches[i].img, matches[i].cap>> : i \in 1..Len(matches)}

\* a caption looked up for each image, the same way
ReversePairs ==
    {p \in StemPairs :
        \A i \in 1..Len(FindCaptionFiles) :
            (Stem(FindCaptionFiles[i].name) = Stem(p[1]) /\ FindCaptionFiles[i] # p[2])
            => \E k \in 1..(i - 1) : FindCaptionFiles[k] = p[2]}

Matched == script = "process" /\ pc \in {"pairs", "finish", "done"}

Scanned == script = "prepare" /\ pc \in {"report", "copy", "finish", "done", "crashed"}

UniqueStems ==
    /\ \A n1, n2 \in ListedImages : Stem(n1) = Stem(n2) => n1 = n2
    /\ \A f1, f2 \in Range(FindCaptionFiles) : Stem(f1.name) = Stem(f2.name) => f1 = f2

\* C2 as stated: an image and a caption are paired exactly when their stems are
\* equal and the extension is listed, and looking up an image for each caption
\* gives the same pairs as looking up a caption for each image.
C2_PairingSymmetric ==
    Matched => /\ ForwardPairs = StemPairs
               /\ ForwardPairs = ReversePairs

\* C2 amended: paired files have equal stems and a listed extension; a caption file
\* is paired with exactly one image when an image of its stem is listed, the one
\* whose extension comes first in the script's extension order; the two lookups
\* agree, and give all pairs of equal stem, when no two listed images and no two
\* caption files share a stem.
C2_PairingFirstImagePerCaption ==
    /\ Matched =>
          /\ ForwardPairs \subseteq StemPairs
          /\ \A f \in Range(FindCaptionFiles) :
                Cardinality({i \in 1..Len(matches) : matches[i].cap = f})
                  = IF \E n \in ListedImages : Stem(n) = Stem(f.name) THEN 1 ELSE 0
          /\ \A p \in ForwardPairs : \A n \in ListedImages :
                Stem(n) = Stem(p[1])
                => ExtRank(p[1], ProcessExtensions) <= ExtRank(n, ProcessExtensions)
          /\ UniqueStems => (ForwardPairs = StemPairs /\ ForwardPairs = ReversePairs)
    /\ Scanned =>
          \A i \in 1..Len(results) :
             LET id == results[i].image_id IN
             /\ id \in images
             /\ ExtRank(id, PrepareExtensions) # 0
             /\ \E f \in Range(PrepCaptionFiles) : Stem(f.name) = Stem(id)
             /\ \A n \in images :
                   (Stem(n) = Stem(id) /\ ExtRank(n, PrepareExtensions) # 0)
                   => ExtRank(id, PrepareExtensions) <= ExtRank(n, PrepareExtensions)

\* two listed images share the stem of a caption file, and the matching has run
C2_Witness ==
    /\ Matched
    /\ Len(matches) > 0
    /\ \E n1, n2 \in ListedImages :
          n1 # n2 /\ Stem(n1) = Stem(n2) /\ Stem(n1) = Stem(matches[1].cap.name)

\* ---- the CSV round trip
Cleaning == script \in {"prepare", "process"}

\* the caption column of the table a cleaning script writes
WrittenCaptionColumn == IF script = "prepare" THEN "cleaned_caption" ELSE "caption"

\* validate_captions has read the final_captions.csv the run wrote
ReadBack == Cleaning /\ valStatus \notin {"idle", "file not found"}

\* C3: reading final_captions.csv back yields the (image_id, caption) pairs of the
\* records written: as many rows, each image_id and caption equal to the one written.
C3_CsvRoundTrip ==
    ReadBack =>
       /\ Len(df.rows) = Len(results)
       /\ \A i \in 1..Len(results) :
             /\ df.rows[i][ColumnIndex(df.columns, "image_id")] = results[i].image_id
             /\ df.rows[i][ColumnIndex(df.columns, WrittenCaptionColumn)]
                  = results[i][WrittenCaptionColumn]

\* ---- the output directory
ImageEntries == {n \in DOMAIN outDir : outDir[n].kind \in {"symlink", "file"}}

TextEntries == {n \in DOMAIN outDir : outDir[n].kind = "text"}

\* C4: when a run of a cleaning script has ended, normally or not, every image entry
\* of the output directory has a .txt file of its stem beside it, and every .txt
\* file has an image entry of its stem.
C4_OutputPaired ==
    (Cleaning /\ RunEnded) =>
       /\ \A n \in ImageEntries : WithSuffix(n, TxtSuffix) \in TextEntries
       /\ \A t \in TextEntries : \E n \in ImageEntries : Stem(n) = Stem(t)

\* C5: every CSV file a script has written has a column image_id and a column
\* caption or cleaned_caption.
C5_CsvColumns ==
    \A f \in DOMAIN csvFiles :
       /\ ColumnIndex(csvFiles[f].columns, "image_id") # 0
       /\ \/ ColumnIndex(csvFiles[f].columns, "caption") # 0
          \/ ColumnIndex(csvFiles[f].columns, "cleaned_caption") # 0

\* C6: a failure on one file never aborts a cleaning script; it is counted once and
\* the run goes on, so that matched_count + skipped_count is the number of caption
\* files and success + failed the number of matched pairs when the totals are printed.
C6_CountAndContinue ==
    /\ Cleaning => pc # "crashed"
    /\ Scanned => matched_count + skipped_count = Len(PrepCaptionFiles)
    /\ (script = "process" /\ pc \in {"finish", "done"})
          => success + failed = Len(matches)

\* ---- duplicates of an image_id
RecordsOf(id) == {i \in 1..Len(results) : results[i].image_id = id}

Max(S) == CHOOSE x \in S : \A y \in S : x >= y

LastCaptionOf(id) == results[Max(RecordsOf(id))].caption

\* the step appends a record whose image_id a record of results already has
AppendsDuplicate ==
    /\ script = "process"
    /\ Len(results') = Len(results) + 1
    /\ RecordsOf(results'[Len(results')].image_id) # {}

WithoutImage ==
    {i \in 1..Len(PrepCaptionFiles) :
        \A k \in 1..Len(PrepareExtensions) :
            (Stem(PrepCaptionFiles[i].name) \o PrepareExtensions[k]) \notin images}

\* C8: the number printed in "Skipped N files (no matching image)" is the number of
\* caption files for which the image directory holds no image of their stem.
C8_SkippedAreUnmatched ==
    \A k \in 1..Len(console) :
        console[k].msg = SkippedMessage => console[k].n = Cardinality(WithoutImage)

\* ---- the model load of caption_generator_finetuned
LoadFailed ==
    /\ Len(loadAttempts) > 0
    /\ \/ loadAttempts[1] = "OtherError"
       \/ Len(loadAttempts) = 2 /\ loadAttempts[2] # "ok"

\* C9: the model load is attempted at most twice; the second attempt follows a
\* ValueError of the first and nothing else; any other failure ends the run with
\* no image processed and nothing written.
C9_OneFallbackLoad ==
    script = "generate" =>
       /\ Len(loadAttempts) <= 2
       /\ Len(loadAttempts) = 2 => loadAttempts[1] = "ValueError"
       /\ pc = "fallback" => loadAttempts = <<"ValueError">>
       /\ LoadFailed =>
             /\ pc = "crashed"
             /\ captions = <<>> /\ csvFiles = EmptyMap /\ ~modelSaved
       /\ (captions # <<>> \/ csvFiles # EmptyMap \/ modelSaved
           \/ pc \in {"setup", "images", "save", "done"})
             => loadAttempts[Len(loadAttempts)] = "ok"

\* the fallback load succeeded after a ValueError and the run wrote its captions
C9_Witness ==
    /\ script = "generate" /\ pc = "done"
    /\ loadAttempts = <<"ValueError", "ok">>
    /\ Len(captions) > 0
    /\ GeneratedCaptionsCsv \in DOMAIN csvFiles

\* C10: every image entry a cleaning script creates in the output directory under
\* the name image_id yields, when read, the source image of that name.
C10_EntryIsSourceImage ==
    Cleaning => \A n \in ImageEntries : ImageBehind(outDir, n) = n


(***************************************************************************)
(* Early exits and the return value                                        *)
(***************************************************************************)
\* a cleaning script left main through one of its early returns: lines 68-85 and
\* 142-145 of clean_and_prepare_captions.py, lines 114-155 of process_all_captions.py
StoppedEarly == Cleaning /\ pc = "returned"

\* C11: when a cleaning script stops early (an input directory is missing, no
\* caption file or no image file is found, no pair is matched), final_captions.csv
\* and the output directory with every file in it are as they were when the run
\* started: none of them was created or written.
C11_EarlyStopTouchesNoOutput ==
    StoppedEarly =>
       /\ ~outDirExists
       /\ outDir = EmptyMap
       /\ csvFiles = EmptyMap
       /\ results = <<>> /\ saved_count = 0 /\ success = 0

\* process_all_captions found caption files and image files, matched none of
\* them and returned
C11_Witness ==
    /\ script = "process" /\ StoppedEarly
    /\ Len(FindCaptionFiles) > 0 /\ Len(FindImageFiles) > 0
    /\ matches = <<>>

\* clean_and_prepare_captions scanned caption files that all have an image and
\* returned because it had stored no record
C11_WitnessPrepare ==
    /\ script = "prepare" /\ StoppedEarly
    /\ Len(PrepCaptionFiles) > 0 /\ WithoutImage = {}
    /\ skipped_count = Len(PrepCaptionFiles)

C12_WitnessAllFailed ==
    /\ script = "process" /\ pc = "done" /\ returnValue = "False"
    /\ Len(matches) > 0 /\ failed = Len(matches)
============================================================================
